---- MODULE Spec2Model ----
(***************************************************************************)
(* A model of track (src/src/main.rs): the classifier EntryInfo::from, the *)
(* line codec (Display for Entry / Entry::from), the store (Track::load,   *)
(* Track::add_entry) and the query/aggregation (Track::query,              *)
(* Entry::aggregate).                                                      *)
(*                                                                         *)
(* Text is a sequence of one-character strings.  An RFC 3339 timestamp     *)
(* (chrono's to_rfc3339 / parse_from_rfc3339, library code) is one token   *)
(* "T<day>" of a line; tokens occur only between the brackets of a line.   *)
(* A DateTime is modelled by its local calendar day, an integer.           *)
(* An f32 is modelled as an exact decimal [m, e] = m * 10^-e, normalised   *)
(* (no trailing zero in the fraction); -0.0 and 0.0 are one value.         *)
(***************************************************************************)
EXTENDS Integers, Sequences, FiniteSets, TLC

VARIABLES pc, input, cres, ent, line, parsed, file, entries, today, calls, res, qarg, out

vars == <<pc, input, cres, ent, line, parsed, file, entries, today, calls, res, qarg, out>>

-----------------------------------------------------------------------------
(* Bounds *)

\* longest text drawn for the classifier
MaxLen == 4
\* longest category / value text drawn for an entry handed to the codec
MaxField == 2
\* most lines the track file grows to
MaxLines == 3
\* most entries in a store handed to query
MaxEntries == 3
\* dates are the days 0 .. MaxDay
MaxDay == 2
\* the store's clock runs over the days 0 .. MaxClock
MaxClock == 1

Days == 0 .. MaxDay

None == [tag |-> "None"]

-----------------------------------------------------------------------------
(* Text helpers *)

Digits == {"0", "1", "2", "3", "4", "5", "6", "7", "8", "9"}
Signs == {"-", "+"}

DigitVal(c) ==
    CASE c = "0" -> 0 [] c = "1" -> 1 [] c = "2" -> 2 [] c = "3" -> 3 [] c = "4" -> 4
      [] c = "5" -> 5 [] c = "6" -> 6 [] c = "7" -> 7 [] c = "8" -> 8 [] c = "9" -> 9

DigitChar(n) == <<"0", "1", "2", "3", "4", "5", "6", "7", "8", "9">>[n + 1]

\* all sequences over A of length 0 .. n
RECURSIVE SeqsUpTo(_, _)
SeqsUpTo(A, n) ==
    IF n = 0 THEN {<<>>}
    ELSE LET shorter == SeqsUpTo(A, n - 1)
         IN  shorter \cup {Append(t, c) : t \in {u \in shorter : Len(u) = n - 1}, c \in A}

Slice(s, a, b) == IF a > b THEN <<>> ELSE SubSeq(s, a, b)

\* str::trim: leading and trailing whitespace removed
RECURSIVE TrimStart(_)
TrimStart(s) == IF s # <<>> /\ Head(s) = " " THEN TrimStart(Tail(s)) ELSE s

RECURSIVE TrimEnd(_)
TrimEnd(s) == IF s # <<>> /\ s[Len(s)] = " " THEN TrimEnd(Slice(s, 1, Len(s) - 1)) ELSE s

Trim(s) == TrimEnd(TrimStart(s))

\* str::contains: pat occurs in s as a contiguous substring
Contains(s, pat) ==
    \E i \in 1 .. (Len(s) + 1) : i + Len(pat) - 1 <= Len(s) /\ Slice(s, i, i + Len(pat) - 1) = pat

LowerChar(c) == CASE c = "W" -> "w" [] c = "C" -> "c" [] c = "K" -> "k" [] OTHER -> c

\* String::to_lowercase
ToLowercase(s) == [i \in 1 .. Len(s) |-> LowerChar(s[i])]

\* lexicographic order of two texts (String::cmp), on the ranks of CharRank
CharRank(c) ==
    CASE c = " " -> 0 [] c = "+" -> 1 [] c = "-" -> 2 [] c = "." -> 3
      [] c \in Digits -> 4 + DigitVal(c) [] c = ":" -> 14
      [] c = "C" -> 15 [] c = "K" -> 16 [] c = "W" -> 17 [] c = "[" -> 18 [] c = "]" -> 19
      [] c = "a" -> 20 [] c = "b" -> 21 [] c = "c" -> 22 [] c = "g" -> 23 [] c = "k" -> 24
      [] c = "n" -> 25 [] c = "r" -> 26 [] c = "w" -> 27 [] OTHER -> 28

RECURSIVE TextLess(_, _)
TextLess(s, t) ==
    IF t = <<>> THEN FALSE
    ELSE IF s = <<>> THEN TRUE
    ELSE IF Head(s) # Head(t) THEN CharRank(Head(s)) < CharRank(Head(t))
    ELSE TextLess(Tail(s), Tail(t))

-----------------------------------------------------------------------------
(* f32 as an exact decimal *)

RECURSIVE Normalise(_)
Normalise(d) ==
    IF d.m = 0 THEN [m |-> 0, e |-> 0]
    ELSE IF d.e > 0 /\ d.m % 10 = 0 THEN Normalise([m |-> d.m \div 10, e |-> d.e - 1])
    ELSE d

RECURSIVE Pow10(_)
Pow10(n) == IF n = 0 THEN 1 ELSE 10 * Pow10(n - 1)

\* f32 addition (+=), exact on the decimals of the model
DecAdd(x, y) ==
    LET e == IF x.e > y.e THEN x.e ELSE y.e
    IN  Normalise([m |-> x.m * Pow10(e - x.e) + y.m * Pow10(e - y.e), e |-> e])

Zero == [m |-> 0, e |-> 0]

RECURSIVE NatDigits(_)
NatDigits(n) == IF n < 10 THEN <<DigitChar(n)>> ELSE Append(NatDigits(n \div 10), DigitChar(n % 10))

RECURSIVE PadLeft(_, _)
PadLeft(s, n) == IF Len(s) >= n THEN s ELSE PadLeft(<<"0">> \o s, n)

\* Display for f32: sign, integer part, and the fraction when there is one
F32ToString(d) ==
    LET abs == IF d.m < 0 THEN -d.m ELSE d.m
        ds  == PadLeft(NatDigits(abs), d.e + 1)
        ip  == Slice(ds, 1, Len(ds) - d.e)
        fp  == Slice(ds, Len(ds) - d.e + 1, Len(ds))
    IN  (IF d.m < 0 THEN <<"-">> ELSE <<>>) \o ip \o (IF d.e > 0 THEN <<".">> \o fp ELSE <<>>)

RECURSIVE DigitsValue(_)
DigitsValue(s) ==
    IF s = <<>> THEN 0 ELSE 10 * DigitsValue(Slice(s, 1, Len(s) - 1)) + DigitVal(s[Len(s)])

OnlyDigits(s) == SelectSeq(s, LAMBDA c : c \in Digits)

CountOf(s, c) == Cardinality({i \in 1 .. Len(s) : s[i] = c})

\* str::parse::<f32> accepts: optional sign, then digits with at most one '.',
\* at least one digit in all ("5", "5.", ".5", "-3.5"); everything else is an error
F32Valid(q) ==
    LET body == IF q # <<>> /\ q[1] \in Signs THEN Tail(q) ELSE q
    IN  /\ \A i \in 1 .. Len(body) : body[i] \in Digits \cup {"."}
        /\ CountOf(body, ".") <= 1
        /\ OnlyDigits(body) # <<>>

F32Parse(q) ==
    LET body == IF q[1] \in Signs THEN Tail(q) ELSE q
        dot  == IF \E i \in 1 .. Len(body) : body[i] = "."
                THEN CHOOSE i \in 1 .. Len(body) : body[i] = "." ELSE Len(body) + 1
        frac == IF dot > Len(body) THEN 0 ELSE Len(body) - dot
        mag  == DigitsValue(OnlyDigits(body))
    IN  Normalise([m |-> IF q[1] = "-" THEN -mag ELSE mag, e |-> frac])

-----------------------------------------------------------------------------
(* EntryInfo::from, the classifier *)

\* QUANTITY_RE = ^([-+]?[0-9]*\.*[0-9]*)+(.*)$ under the regex crate's leftmost-first
\* rule.  st is the place in the group after the last character read: "a" before
\* anything is read, "b" in the first digit run, "c" in the dots, "d" in the second
\* digit run; g is where the current iteration of the group began.  A character
\* the current iteration cannot take starts a new iteration when the group can
\* begin with it, and the capture is the LAST iteration.  The result is
\* <<first index of capture 1, first index of capture 2>>.
RECURSIVE QScan(_, _, _, _)
QScan(t, p, st, g) ==
    IF p > Len(t) THEN <<g, p>>
    ELSE LET ch == t[p] IN
         IF st = "a" THEN
              IF ch \in Signs \cup Digits THEN QScan(t, p + 1, "b", p)
              ELSE IF ch = "." THEN QScan(t, p + 1, "c", p)
              ELSE <<p, p>>
         ELSE IF st = "b" THEN
              IF ch \in Digits THEN QScan(t, p + 1, "b", g)
              ELSE IF ch = "." THEN QScan(t, p + 1, "c", g)
              ELSE IF ch \in Signs THEN QScan(t, p + 1, "b", p)
              ELSE <<g, p>>
         ELSE IF st = "c" THEN
              IF ch = "." THEN QScan(t, p + 1, "c", g)
              ELSE IF ch \in Digits THEN QScan(t, p + 1, "d", g)
              ELSE IF ch \in Signs THEN QScan(t, p + 1, "b", p)
              ELSE <<g, p>>
         ELSE \* st = "d"
              IF ch \in Digits THEN QScan(t, p + 1, "d", g)
              ELSE IF ch \in Signs THEN QScan(t, p + 1, "b", p)
              ELSE IF ch = "." THEN QScan(t, p + 1, "c", p)
              ELSE <<g, p>>

QuantityCaptures(t) ==
    LET c == QScan(t, 1, "a", 1)
    IN  [quantity |-> Slice(t, c[1], c[2] - 1), unit |-> Slice(t, c[2], Len(t))]

ParseFloatError == [tag |-> "Err", kind |-> "ParseFloatError"]

\* the classifier with a float that does not parse taken for a Log
EntryInfoFromLogOnError(s) ==
    LET caps == QuantityCaptures(Trim(s))
    IN  IF caps.quantity = <<>> \/ ~F32Valid(caps.quantity) THEN [tag |-> "L", text |-> s]
        ELSE [tag |-> "Q", quantity |-> F32Parse(caps.quantity), unit |-> caps.unit]

EntryInfoFrom(s) ==
    LET caps == QuantityCaptures(Trim(s))
    IN  IF caps.quantity = <<>> THEN [tag |-> "L", text |-> s]
        ELSE IF ~F32Valid(caps.quantity) THEN ParseFloatError
        ELSE [tag |-> "Q", quantity |-> F32Parse(caps.quantity), unit |-> caps.unit]

\* Display for EntryInfo
EntryInfoToString(i) ==
    IF i.tag = "Q" THEN F32ToString(i.quantity) \o i.unit ELSE i.text

-----------------------------------------------------------------------------
(* The classifier applied to one input *)

ClassifyAlphabet == {"-", "+", ".", "1", "2", "k", " "}

ClassifyExamples ==
    { <<"1", "2", "k", "g">>, <<"r", "a", "n">>, <<"-", "3", ".", "5">>,
      <<"1", "2", ".", "3", "4", ".", "5", "6", "a", "b", "c">> }

ClassifyInputs == SeqsUpTo(ClassifyAlphabet, MaxLen) \cup ClassifyExamples

InitClassify ==
    /\ pc = "classify"
    /\ input \in ClassifyInputs
    /\ cres = None
    /\ ent = None /\ line = <<>> /\ parsed = None
    /\ file = <<>> /\ entries = <<>> /\ today = 0 /\ calls = None /\ res = None
    /\ qarg = None /\ out = <<>>

Classify ==
    /\ pc = "classify"
    /\ cres' = EntryInfoFrom(input)
    /\ pc' = "done"
    /\ UNCHANGED <<input, ent, line, parsed, file, entries, today, calls, res, qarg, out>>

NextClassify == Classify

SpecClassify == InitClassify /\ [][NextClassify]_vars

NumericChars == Signs \cup Digits \cup {"."}

\* the longest leading run of sign, digit and '.' characters of t
RECURSIVE NumericPrefixLen(_)
NumericPrefixLen(t) ==
    IF t # <<>> /\ Head(t) \in NumericChars THEN 1 + NumericPrefixLen(Tail(t)) ELSE 0

Quantity(m, e, u) == [tag |-> "Q", quantity |-> [m |-> m, e |-> e], unit |-> u]

C9_QuantityIsWholePrefix ==
    pc = "done" =>
        LET t == Trim(input) IN
        /\ (cres.tag = "Q") =>
              \E k \in 1 .. Len(t) :
                  /\ F32Valid(Slice(t, 1, k))
                  /\ F32Parse(Slice(t, 1, k)) = cres.quantity
                  /\ Slice(t, k + 1, Len(t)) = cres.unit
        /\ (input = <<"1", "2", ".", "3", "4", ".", "5", "6", "a", "b", "c">>) => (cres.tag = "Err")

-----------------------------------------------------------------------------
(* The line codec: Display for Entry and Entry::from *)

\* DateTime::to_rfc3339, as the token of the day
ToRfc3339(d) == <<"T0", "T1", "T2", "T3", "T4", "T5", "T6", "T7", "T8", "T9">>[d + 1]

TimestampTokens == {ToRfc3339(d) : d \in 0 .. 9}

\* DateTime::parse_from_rfc3339 succeeds on exactly the text of one timestamp
Rfc3339Valid(t) == Len(t) = 1 /\ t[1] \in TimestampTokens

ParseFromRfc3339(t) == CHOOSE d \in 0 .. 9 : ToRfc3339(d) = t[1]

Entry(d, c, i) == [tag |-> "Entry", date |-> d, categories |-> c, info |-> i]

\* Display for Entry: "[{}] {}:{}"
EntryToString(e) ==
    <<"[", ToRfc3339(e.date), "]", " ">> \o e.categories \o <<":">> \o EntryInfoToString(e.info)

SetMax(S) == CHOOSE x \in S : \A y \in S : y <= x

\* ENTRY_RE = ^\[(.*)\] (.*):(.*)$ ; both (.*) before the ':' are greedy, so the
\* first capture ends at the LAST "] " that still has a ':' after it and the second
\* at the LAST ':' of the line.  The result is <<index of ']', index of ':'>>, or
\* <<0, 0>> when the line does not match.
EntryCaptures(s) ==
    LET brs  == {i \in 2 .. Len(s) - 2 :
                    s[i] = "]" /\ s[i + 1] = " " /\ \E j \in i + 2 .. Len(s) : s[j] = ":"}
    IN  IF s = <<>> \/ s[1] # "[" \/ brs = {} THEN <<0, 0>>
        ELSE <<SetMax(brs), SetMax({j \in 1 .. Len(s) : s[j] = ":"})>>

MalformedLine == [tag |-> "Err", kind |-> "Could not parse line for entry"]
MalformedTimestamp == [tag |-> "Err", kind |-> "chrono ParseError"]

EntryFrom(s) ==
    LET c == EntryCaptures(s) IN
    IF c = <<0, 0>> THEN MalformedLine
    ELSE LET date == Slice(s, 2, c[1] - 1)
             categories == Slice(s, c[1] + 2, c[2] - 1)
             info == EntryInfoFrom(Slice(s, c[2] + 1, Len(s)))
         IN  IF ~Rfc3339Valid(date) THEN MalformedTimestamp
             ELSE IF info.tag = "Err" THEN info
             ELSE Entry(ParseFromRfc3339(date), categories, info)

-----------------------------------------------------------------------------
(* The codec applied to one valid entry: serialise, then parse *)

CodecCategoryAlphabet == {"w", "]", " "}
CodecValueAlphabet == {"r", ":", "1", "k"}

\* the values classify produces
CodecInfos ==
    {i \in {EntryInfoFrom(v) : v \in SeqsUpTo(CodecValueAlphabet, MaxField)} : i.tag # "Err"}

\* valid entries: category non-empty, without ':'; value a Log or Quantity of classify
ValidEntries ==
    {Entry(d, c, i) : d \in Days, c \in SeqsUpTo(CodecCategoryAlphabet, MaxField) \ {<<>>},
                      i \in CodecInfos}

InitCodec ==
    /\ pc = "serialize"
    /\ ent \in ValidEntries
    /\ line = <<>> /\ parsed = None
    /\ input = <<>> /\ cres = None
    /\ file = <<>> /\ entries = <<>> /\ today = 0 /\ calls = None /\ res = None
    /\ qarg = None /\ out = <<>>

Serialize ==
    /\ pc = "serialize"
    /\ line' = EntryToString(ent)
    /\ pc' = "parse"
    /\ UNCHANGED <<input, cres, ent, parsed, file, entries, today, calls, res, qarg, out>>

Parse ==
    /\ pc = "parse"
    /\ parsed' = EntryFrom(line)
    /\ pc' = "done"
    /\ UNCHANGED <<input, cres, ent, line, file, entries, today, calls, res, qarg, out>>

NextCodec == Serialize \/ Parse

SpecCodec == InitCodec /\ [][NextCodec]_vars

\* C2: parsing the serialisation of a valid entry succeeds and gives back the
\* entry's category, value and timestamp.
C2_RoundTrip ==
    pc = "done" => parsed = ent

FirstIndex(s, c, from) == CHOOSE i \in from .. Len(s) : s[i] = c /\ \A j \in from .. i - 1 : s[j] # c

\* C6: a parsed line is split at the first ':' after the closing bracket: the
\* category holds no ':' and the value is the classification of all that follows
\* that first ':'.
C6_SplitAtFirstColon ==
    (pc = "done" /\ parsed.tag = "Entry") =>
        LET close == FirstIndex(line, "]", 1)
            colon == FirstIndex(line, ":", close)
        IN  /\ ~Contains(parsed.categories, <<":">>)
            /\ parsed.categories = Slice(line, close + 2, colon - 1)
            /\ parsed.info = EntryInfoFrom(Slice(line, colon + 1, Len(line)))

-----------------------------------------------------------------------------
(* The store: Track::load / get_entries and Track::add_entry on the track file. *)
(* file is the track file as its lines; calls is history: the entries the      *)
(* successful add_entry calls were given, and whether anything else wrote.     *)

Ok == [tag |-> "Ok"]

\* the loop of get_entries: empty lines skipped, the first error returned
RECURSIVE ReadLines(_, _)
ReadLines(lines, acc) ==
    IF lines = <<>> THEN [tag |-> "Ok", entries |-> acc]
    ELSE IF Head(lines) = <<>> THEN ReadLines(Tail(lines), acc)
    ELSE LET e == EntryFrom(Head(lines))
         IN  IF e.tag = "Err" THEN e ELSE ReadLines(Tail(lines), Append(acc, e))

\* the loop that drops a line it cannot parse instead of returning the error
RECURSIVE ReadLinesSkipBad(_, _)
ReadLinesSkipBad(lines, acc) ==
    IF lines = <<>> THEN [tag |-> "Ok", entries |-> acc]
    ELSE LET e == EntryFrom(Head(lines))
         IN  IF Head(lines) = <<>> \/ e.tag = "Err" THEN ReadLinesSkipBad(Tail(lines), acc)
             ELSE ReadLinesSkipBad(Tail(lines), Append(acc, e))

GetEntriesSkipBad(old, lines) ==
    [result |-> Ok, entries |-> ReadLinesSkipBad(lines, <<>>).entries]

\* get_entries: self.entries is assigned only after every line parsed
GetEntries(old, lines) ==
    LET r == ReadLines(lines, <<>>)
    IN  IF r.tag = "Err" THEN [result |-> r, entries |-> old]
        ELSE [result |-> Ok, entries |-> r.entries]

StoreCategories == {<<"W">>, <<"w", "c">>}
StoreValues == {<<"r">>, <<"r", ":", "r">>, <<"-">>}

\* lines written to the file by something other than add_entry: an empty line, a
\* line without the closing bracket, one with a bad timestamp, one with a bad
\* quantity, and a well-formed line
ExternalLines ==
    { <<>>,
      <<"[", "T0", " ", "w", ":", "r">>,
      <<"[", "r", "]", " ", "w", ":", "r">>,
      <<"[", "T0", "]", " ", "w", ":", "-">>,
      <<"[", "T0", "]", " ", "w", ":", "r">> }

InitStore ==
    /\ pc = "store"
    /\ file = <<>>
    /\ entries = <<>>
    /\ today = 0
    /\ calls = [added |-> <<>>, external |-> FALSE]
    /\ res = [op |-> "new", r |-> Ok]
    /\ input = <<>> /\ cres = None /\ ent = None /\ line = <<>> /\ parsed = None
    /\ qarg = None /\ out = <<>>

Load ==
    /\ pc = "store"
    /\ LET g == GetEntries(entries, file)
       IN  /\ entries' = g.entries
           /\ res' = [op |-> "load", r |-> g.result]
    /\ UNCHANGED <<pc, file, today, calls, input, cres, ent, line, parsed, qarg, out>>

AddEntry(categories, info) ==
    /\ pc = "store"
    /\ Len(file) < MaxLines
    /\ LET i == EntryInfoFrom(info)
           entry == Entry(today, ToLowercase(categories), i)
       IN  IF i.tag = "Err"
           THEN /\ res' = [op |-> "add_entry", r |-> i]
                /\ UNCHANGED <<file, calls>>
           ELSE /\ file' = Append(file, EntryToString(entry))
                /\ calls' = [calls EXCEPT !.added = Append(@, entry)]
                /\ res' = [op |-> "add_entry", r |-> Ok]
    /\ UNCHANGED <<pc, entries, today, input, cres, ent, line, parsed, qarg, out>>

ExternalWrite(l) ==
    /\ pc = "store"
    /\ Len(file) < MaxLines
    /\ file' = Append(file, l)
    /\ calls' = [calls EXCEPT !.external = TRUE]
    /\ res' = [op |-> "external", r |-> Ok]
    /\ UNCHANGED <<pc, entries, today, input, cres, ent, line, parsed, qarg, out>>

\* Local::now() moves to the next day
Tick ==
    /\ pc = "store"
    /\ today < MaxClock
    /\ today' = today + 1
    /\ UNCHANGED <<pc, file, entries, calls, res, input, cres, ent, line, parsed, qarg, out>>

NextStore ==
    \/ Load
    \/ \E c \in StoreCategories, v \in StoreValues : AddEntry(c, v)
    \/ \E l \in ExternalLines : ExternalWrite(l)
    \/ Tick

SpecStore == InitStore /\ [][NextStore]_vars

WellFormed(l) == EntryFrom(l).tag = "Entry"

NonEmptyLines(f) == SelectSeq(f, LAMBDA l : l # <<>>)

\* C4: a load of a file with a non-empty line that is not a well-formed entry
\* (structure, timestamp or quantity) returns an error and leaves the store's
\* entries as they were; otherwise it succeeds and the store holds the entry of
\* every non-empty line, in file order: only empty lines are skipped.
C4_LoadFailFast ==
    [][ (res'.op = "load") =>
          LET ls == NonEmptyLines(file') IN
          IF \E k \in 1 .. Len(ls) : ~WellFormed(ls[k])
          THEN res'.r.tag = "Err" /\ entries' = entries
          ELSE res'.r = Ok /\ entries' = [k \in 1 .. Len(ls) |-> EntryFrom(ls[k])]
      ]_vars

\* a load failed on a file whose first line is well-formed and whose second is
\* not, and the store still holds what an earlier load gave it
C4_Witness ==
    /\ res.op = "load" /\ res.r.tag = "Err"
    /\ Len(file) = 2 /\ WellFormed(file[1]) /\ ~WellFormed(file[2]) /\ file[2] # <<>>
    /\ entries = <<EntryFrom(file[1])>>

\* C10: when only add_entry wrote to the file, a load succeeds and the store
\* holds one entry per successful call, in call order, each with the lowercased
\* category and the classified value of its call.
C10_AddThenLoad ==
    (res.op = "load" /\ ~calls.external) =>
        /\ res.r = Ok
        /\ Len(entries) = Len(calls.added)
        /\ \A k \in 1 .. Len(entries) :
              /\ entries[k].categories = calls.added[k].categories
              /\ entries[k].info = calls.added[k].info

-----------------------------------------------------------------------------
(* Track::query and Entry::aggregate *)

\* one step of aggregate's loop on a HashMap: the entry or_insert(init), then +=
Bump(map, key, init, add) ==
    [k \in DOMAIN map \cup {key} |->
        IF k = key THEN (IF key \in DOMAIN map THEN map[key] ELSE init) + add ELSE map[k]]

BumpF32(map, key, add) ==
    [k \in DOMAIN map \cup {key} |->
        IF k = key THEN DecAdd(IF key \in DOMAIN map THEN map[key] ELSE Zero, add) ELSE map[k]]

EmptyMap == [k \in {} |-> 0]

RECURSIVE AggregateLoop(_, _, _)
AggregateLoop(es, logs, quantities) ==
    IF es = <<>> THEN [logs |-> logs, quantities |-> quantities]
    ELSE LET e == Head(es) IN
         IF e.info.tag = "Q"
         THEN AggregateLoop(Tail(es), logs, BumpF32(quantities, e.info.unit, e.info.quantity))
         ELSE AggregateLoop(Tail(es), Bump(logs, e.info.text, 0, 1), quantities)

\* the loop with the magnitude stored instead of added
RECURSIVE AggregateLoopInsert(_, _, _)
AggregateLoopInsert(es, logs, quantities) ==
    IF es = <<>> THEN [logs |-> logs, quantities |-> quantities]
    ELSE LET e == Head(es) IN
         IF e.info.tag = "Q"
         THEN AggregateLoopInsert(Tail(es), logs,
                  [k \in DOMAIN quantities \cup {e.info.unit} |->
                      IF k = e.info.unit THEN e.info.quantity ELSE quantities[k]])
         ELSE AggregateLoopInsert(Tail(es), Bump(logs, e.info.text, 0, 1), quantities)

AggregateInsert(es) == AggregateLoopInsert(es, EmptyMap, EmptyMap)

\* Entry::aggregate
Aggregate(es) == AggregateLoop(es, EmptyMap, EmptyMap)

\* the filter with the boundary day taken
MatchesInclusive(e, categories, min_date) ==
    Contains(e.categories, categories) /\ e.date >= min_date

\* the iterator filter of query: substring of the category, date after min_date
Matches(e, categories, min_date) == Contains(e.categories, categories) /\ e.date > min_date

\* itertools group_by on the date: a new group starts whenever the key changes
RECURSIVE GroupByDate(_)
GroupByDate(es) ==
    IF es = <<>> THEN <<>>
    ELSE LET rest == GroupByDate(Tail(es)) IN
         IF rest # <<>> /\ rest[1].date = Head(es).date
         THEN <<[date |-> Head(es).date, items |-> <<Head(es)>> \o rest[1].items]>> \o Tail(rest)
         ELSE <<[date |-> Head(es).date, items |-> <<Head(es)>>]>> \o rest

\* itertools group_by on the category
RECURSIVE GroupByCategory(_)
GroupByCategory(es) ==
    IF es = <<>> THEN <<>>
    ELSE LET rest == GroupByCategory(Tail(es)) IN
         IF rest # <<>> /\ rest[1].category = Head(es).categories
         THEN <<[category |-> Head(es).categories, items |-> <<Head(es)>> \o rest[1].items]>>
              \o Tail(rest)
         ELSE <<[category |-> Head(es).categories, items |-> <<Head(es)>>]>> \o rest

\* e put after every element whose category is not greater
RECURSIVE InsertByCategory(_, _)
InsertByCategory(sorted, e) ==
    IF sorted = <<>> THEN <<e>>
    ELSE IF TextLess(e.categories, Head(sorted).categories) THEN <<e>> \o sorted
    ELSE <<Head(sorted)>> \o InsertByCategory(Tail(sorted), e)

\* itertools sorted_by on the category (Vec::sort_by, a stable sort)
RECURSIVE SortedByCategory(_)
SortedByCategory(es) ==
    IF es = <<>> THEN <<>>
    ELSE InsertByCategory(SortedByCategory(Slice(es, 1, Len(es) - 1)), es[Len(es)])

\* what query prints, as its structure: one element per date group (its first
\* printed row carries the date), holding one element per category group with the
\* entries aggregated and the bucket printed for them
QueryOutput(es, categories, range, now) ==
    LET min_date == now - range
        days == GroupByDate(SelectSeq(es, LAMBDA e : Matches(e, categories, min_date)))
    IN  [g \in 1 .. Len(days) |->
            LET cats == GroupByCategory(SortedByCategory(days[g].items))
            IN  [date |-> days[g].date,
                 cats |-> [c \in 1 .. Len(cats) |->
                             [category |-> cats[c].category,
                              items |-> cats[c].items,
                              agg |-> Aggregate(cats[c].items)]]]]

\* a Log, two quantities of different units in one category, a Log in another
QueryPool ==
    {Entry(d, kc[1], kc[2]) :
        d \in Days,
        kc \in { <<<<"w", ":", "c">>, [tag |-> "L", text |-> <<"r">>]>>,
                 <<<<"w", ":", "c">>, Quantity(1, 0, <<"k">>)>>,
                 <<<<"w", ":", "c">>, Quantity(25, 1, <<>>)>>,
                 <<<<"c">>, [tag |-> "L", text |-> <<"r">>]>> }}

QueryFilters == {<<"w">>, <<"c">>}
QueryRanges == -1 .. 2

\* the store as some load left it, and now = day 1: day 0 is yesterday, day 2 tomorrow
InitQuery ==
    /\ pc = "query"
    /\ entries \in SeqsUpTo(QueryPool, MaxEntries)
    /\ today = 1
    /\ qarg = None /\ out = <<>> /\ res = None
    /\ file = <<>> /\ calls = None
    /\ input = <<>> /\ cres = None /\ ent = None /\ line = <<>> /\ parsed = None

Query(categories, range) ==
    /\ pc = "query"
    /\ qarg' = [categories |-> categories, range |-> range]
    /\ out' = QueryOutput(entries, categories, range, today)
    /\ res' = Ok
    /\ pc' = "done"
    /\ UNCHANGED <<entries, today, file, calls, input, cres, ent, line, parsed>>

NextQuery == \E c \in QueryFilters, r \in QueryRanges : Query(c, r)

SpecQuery == InitQuery /\ [][NextQuery]_vars

\* the places <<g, c, k>> of the output: entry k of category group c of date group g
Places ==
    {p \in (DOMAIN out) \X (1 .. MaxEntries + 1) \X (1 .. MaxEntries + 1) :
        p[2] \in DOMAIN out[p[1]].cats /\ p[3] \in DOMAIN out[p[1]].cats[p[2]].items}

ItemAt(p) == out[p[1]].cats[p[2]].items[p[3]]

Buckets == {p \in (DOMAIN out) \X (1 .. MaxEntries + 1) : p[2] \in DOMAIN out[p[1]].cats}

\* the exact sum of the magnitudes of the entries of items at the places ks
MagnitudeSum(items, ks) ==
    LET E == SetMax({items[k].info.quantity.e : k \in ks})
        RECURSIVE Sum(_)
        Sum(S) == IF S = {} THEN 0
                  ELSE LET k == CHOOSE x \in S : TRUE
                       IN  items[k].info.quantity.m * Pow10(E - items[k].info.quantity.e)
                           + Sum(S \ {k})
    IN  Normalise([m |-> Sum(ks), e |-> E])

\* C1: in every (day, category) group of a query, logs maps each Log text of the
\* group to the number of the group's Log entries with that text, quantities maps
\* each unit of the group to the sum of the group's Quantity magnitudes with that
\* unit, and neither map has any other key.
C1_AggregateExact ==
    pc = "done" =>
        \A b \in Buckets :
            LET grp   == out[b[1]].cats[b[2]]
                items == grp.items
                ls    == {k \in DOMAIN items : items[k].info.tag = "L"}
                qs    == {k \in DOMAIN items : items[k].info.tag = "Q"}
            IN  /\ \A k \in DOMAIN items :
                      items[k].date = out[b[1]].date /\ items[k].categories = grp.category
                /\ DOMAIN grp.agg.logs = {items[k].info.text : k \in ls}
                /\ \A t \in DOMAIN grp.agg.logs :
                      grp.agg.logs[t] = Cardinality({k \in ls : items[k].info.text = t})
                /\ DOMAIN grp.agg.quantities = {items[k].info.unit : k \in qs}
                /\ \A u \in DOMAIN grp.agg.quantities :
                      grp.agg.quantities[u]
                        = MagnitudeSum(items, {k \in qs : items[k].info.unit = u})

\* a group of two equal Logs and one quantity of unit "k" was aggregated: the Log
\* is counted twice and the quantity stands under its unit
C1_Witness ==
    /\ pc = "done"
    /\ \E b \in Buckets :
          LET grp == out[b[1]].cats[b[2]]
          IN  /\ Len(grp.items) = 3
              /\ grp.agg.logs = (<<"r">> :> 2)
              /\ grp.agg.quantities = (<<"k">> :> [m |-> 1, e |-> 0])

Occurrences(e) == Cardinality({k \in DOMAIN entries : entries[k] = e})

OutputOccurrences(e) == Cardinality({p \in Places : ItemAt(p) = e})

\* C3: an entry of the store is in the output of query(filter, range) exactly when
\* filter is a substring of its category and its date is after today - range; so an
\* entry dated today - range is left out and one dated a day later is taken.
C3_FilterAndRange ==
    pc = "done" =>
        \A k \in DOMAIN entries :
            LET e == entries[k] IN
            OutputOccurrences(e) =
                IF Contains(e.categories, qarg.categories) /\ e.date > today - qarg.range
                THEN Occurrences(e) ELSE 0

\* query "w" over one day on a store with a "w:c" entry of yesterday (exactly
\* range days ago, left out) and one of today (range - 1 days ago, taken)
C3_Witness ==
    /\ pc = "done" /\ qarg = [categories |-> <<"w">>, range |-> 1]
    /\ \E i, j \in DOMAIN entries :
          /\ entries[i].categories = <<"w", ":", "c">> /\ entries[i].date = today - 1
          /\ entries[j].categories = <<"w", ":", "c">> /\ entries[j].date = today
          /\ OutputOccurrences(entries[i]) = 0
          /\ OutputOccurrences(entries[j]) > 0

\* C7: query with a negative range fails (InvalidRange) instead of returning Ok.
C7_NegativeRangeFails ==
    (pc = "done" /\ qarg.range < 0) => res.tag = "Err"

\* the distinct elements of s in the order of their first occurrence
RECURSIVE FirstSeen(_)
FirstSeen(s) ==
    IF s = <<>> THEN <<>>
    ELSE LET front == FirstSeen(Slice(s, 1, Len(s) - 1))
         IN  IF \E i \in DOMAIN front : front[i] = s[Len(s)] THEN front
             ELSE Append(front, s[Len(s)])

\* C8: the date groups of the output are the distinct days of the filtered entries,
\* each once, in the order of their first occurrence.
C8_OneGroupPerDay ==
    pc = "done" =>
        LET kept == SelectSeq(entries, LAMBDA e : Contains(e.categories, qarg.categories)
                                                   /\ e.date > today - qarg.range)
        IN  [g \in DOMAIN out |-> out[g].date] = FirstSeen([k \in DOMAIN kept |-> kept[k].date])

====
